---- MODULE Spec2Model ----
(***************************************************************************)
(* MacReplay: the /play resolution pipeline (app.py, channel), the MAC     *)
(* rotation (moveMac), the occupancy table (occupied) and the relay        *)
(* generator (channel.streamData).                                         *)
(*                                                                         *)
(* The server is threaded: every /play request runs in its own thread, so  *)
(* the steps of different requests interleave at every upstream call.  One *)
(* iteration of a "for mac in macs" loop is one step.  The relay generator *)
(* runs after channel() has returned its Response, chunk by chunk.         *)
(***************************************************************************)
EXTENDS Naturals, Sequences, FiniteSets, TLC

\* ---------------------------------------------------------------- bounds
MaxMacs == 2    \* MACs configured on portal X
NumReq == 2     \* /play requests in one behaviour
MaxCap == 1     \* largest "streams per mac" of a portal
NumClients == 2 \* threads that serve the playlist, lineup and EPG at a time
MaxProgs == 2   \* an EPG refresh starts while the file holds fewer programmes

\* ------------------------------------------------------------ the config
PortalOrder == <<"X", "Y">>         \* iteration order of config["portals"]
Portals == {"X", "Y"}
MacNames == <<"A", "B", "C", "D", "E">>
XMacs == {MacNames[k] : k \in 1..MaxMacs}
YMacs == {"F", "G"}
AllMacs == XMacs \cup YMacs
PortalOf(mac) == IF mac \in XMacs THEN "X" ELSE "Y"
RequestPortals == {"X"}              \* the portals /play is asked for
Reqs == 1..NumReq
ChannelId == "1"                    \* the channel id of every request
FallbackId == "42"                  \* the key of a fallback-channel entry
ChanName == "N"                     \* the name of channel 1 (and of the entry)
Unbound == "<unbound>"              \* a local variable not assigned yet

\* the "macs" dict of a portal: insertion-ordered <<mac, expiry>> pairs
Expiry(m) == <<"expiry", m>>
InitMacs(p) ==
  IF p = "X" THEN [k \in 1..MaxMacs |-> <<MacNames[k], Expiry(MacNames[k])>>]
  ELSE << <<"F", Expiry("F")>>, <<"G", Expiry("G")>> >>

\* ---------------------------------------------------------- dict helpers
Keys(d) == [k \in 1..Len(d) |-> d[k][1]]
HasKey(d, m) == \E k \in 1..Len(d) : d[k][1] = m
Value(d, m) == d[CHOOSE k \in 1..Len(d) : d[k][1] = m][2]
DelKey(d, m) == SelectSeq(d, LAMBDA e : e[1] # m)
SetKey(d, m, x) ==
  IF HasKey(d, m)
  THEN [k \in 1..Len(d) |-> IF d[k][1] = m THEN <<m, x>> ELSE d[k]]
  ELSE Append(d, <<m, x>>)

\* moveMac gone wrong: the failed MAC is put first instead of last
moveMacToHead(ps, portalId, mac) ==
  LET macs == ps[portalId]
      x == Value(macs, mac)
  IN [ps EXCEPT ![portalId] = <<<<mac, x>>>> \o DelKey(macs, mac)]

\* lines 259-262 of moveMac: the dict after "del macs[mac]"
moveMacDel(ps, portalId, mac) == [ps EXCEPT ![portalId] = DelKey(@, mac)]
\* moveMacSet gone wrong: the MAC is put back first instead of last
moveMacSetFirst(ps, portalId, mac, x) ==
  [ps EXCEPT ![portalId] = <<<<mac, x>>>> \o @]
\* lines 263-265 of moveMac: the dict after "macs[mac] = x"
moveMacSet(ps, portalId, mac, x) == [ps EXCEPT ![portalId] = SetKey(@, mac, x)]
\* moveMac(portalId, mac) as a whole: x = macs[mac]; del macs[mac];
\* macs[mac] = x
moveMac(ps, portalId, mac) ==
  moveMacSet(moveMacDel(ps, portalId, mac), portalId, mac,
             Value(ps[portalId], mac))

\* isMacFree(): count the sessions of portalId whose "mac" is mac
isMacFree(occ, portalId, mac, streamsPerMac) ==
  Cardinality({k \in 1..Len(occ[portalId]) : occ[portalId][k].mac = mac})
    < streamsPerMac

\* list.remove(x): the first element equal to x is removed
ListRemove(s, x) ==
  LET k == CHOOSE j \in 1..Len(s) :
             s[j] = x /\ \A h \in 1..(j - 1) : s[h] # x
  IN SubSeq(s, 1, k - 1) \o SubSeq(s, k + 1, Len(s))
InList(s, x) == \E k \in 1..Len(s) : s[k] = x

VARIABLES
  portalMacs,   \* config["portals"][p]["macs"]
  portalCfg,    \* enabled, "streams per mac", "fallback channels" of p
  settings,     \* config["settings"]
  occupied,     \* the occupancy table
  req,          \* the /play requests: locals of channel() and streamData()
  hist,         \* history: what the request started last has attempted
  cached_playlist,      \* None, or the playlist text
  last_playlist_host,   \* None, or the host of the last regeneration
  cached_lineup,        \* the lineup list
  cached_xmltv,         \* None, or the EPG document
  last_updated,         \* 1: set within the last 900 s, 0: older than that
  cache_file,           \* MacReplayEPG.xml: None (no file), or the document
  enabledChannels,      \* p has "enabled channels" (its channel 1 is enabled)
  threads,              \* background threads started and not yet running
  route,                \* the artifact that the clients of the behaviour use
  client,               \* the threads of the cache routes and refreshes
  calc                  \* one run of a loop body or of a builder's function:
                        \* what it is given and what it has done so far
playVars == <<portalMacs, portalCfg, settings, occupied, req, hist>>
cacheVars ==
  <<cached_playlist, last_playlist_host, cached_lineup, cached_xmltv,
    last_updated, cache_file, enabledChannels, threads, route, client>>
vars == <<playVars, cacheVars, calc>>

IdleReq ==
  [pc |-> "idle", portalId |-> "X", web |-> FALSE, macs |-> <<>>, i |-> 1,
   fp |-> 1, channelName |-> Unbound, mac |-> Unbound, x |-> <<>>,
   result |-> "none", child |-> "none", cause |-> "none"]

\* defaultSettings: "try all macs", "test streams", "stream method"
defaultSettings == [tryAll |-> TRUE, test |-> TRUE, method |-> "ffmpeg"]
Settings == [tryAll : BOOLEAN, test : BOOLEAN, method : {"ffmpeg", "redirect"}]
\* defaultPortal with a cap, and with or without a fallback-channel entry
PortalCfgs ==
  [enabled : BOOLEAN, cap : 0..MaxCap,
   fallback : {{}, {<<FallbackId, ChanName>>}}]

\* the module-level globals of lines 103-107, no EPG file on disk yet, and the
\* two threads of start_refresh() (lines 1421-1424) started
Clients == 1..NumClients
Routes == {"playlist", "lineup", "xmltv"}
Hosts == {"h1", "h2"}               \* request.host of the playlist requests
IdleClient ==
  [pc |-> "idle", op |-> "none", host |-> "h1", p |-> 1, i |-> 1,
   acc |-> <<>>, old |-> <<>>, built |-> <<>>, called |-> FALSE,
   raised |-> FALSE, status |-> "none", resp |-> <<>>]
CacheStart ==
  /\ cached_playlist = <<>>
  /\ last_playlist_host = <<>>
  /\ cached_lineup = <<>>
  /\ cached_xmltv = <<>>
  /\ last_updated = 0
  /\ cache_file = <<>>
  /\ enabledChannels = [p \in Portals |-> TRUE]
  /\ threads = {"refresh_lineup", "refresh_xmltv"}
  /\ client = [c \in Clients |-> IdleClient]

NoCalc == [fn |-> "none"]
Globals0(logging, turns) ==
  /\ CacheStart
  /\ portalMacs = [p \in Portals |-> InitMacs(p)]
  /\ occupied = [p \in Portals |-> <<>>]
  /\ req = [r \in Reqs |-> IdleReq]
  /\ hist = [on |-> logging, cur |-> 0, order0 |-> <<>>, tried |-> <<>>,
             turns |-> turns, since |-> [m \in AllMacs |-> {}],
             late |-> [r \in Reqs |-> {}]]
Start0(logging, turns) == Globals0(logging, turns) /\ calc = NoCalc

\* the default settings, both portals enabled
Init ==
  /\ Start0(FALSE, FALSE)
  /\ route = "playlist"
  /\ settings = defaultSettings
  /\ portalCfg \in [Portals -> PortalCfgs]
  /\ \A p \in Portals : portalCfg[p].enabled
  /\ portalCfg["X"].fallback = {}
  /\ portalCfg["Y"].cap = MaxCap

\* Init with the history of the turns of the MACs
InitTurns ==
  /\ Start0(FALSE, TRUE)
  /\ route = "playlist"
  /\ settings = defaultSettings
  /\ portalCfg \in [Portals -> PortalCfgs]
  /\ \A p \in Portals : portalCfg[p].enabled
  /\ portalCfg["X"].fallback = {}
  /\ portalCfg["Y"].cap = MaxCap

\* every configuration
InitAlone ==
  /\ Start0(TRUE, FALSE)
  /\ route = "playlist"
  /\ settings \in Settings
  /\ portalCfg \in [Portals -> PortalCfgs]
  /\ portalCfg["Y"].cap = MaxCap

\* -------------------------------------------------------------- channel()
Cfg(r) == portalCfg[req[r].portalId]
LogStart(r, order) ==
  IF hist.on THEN [hist EXCEPT !.cur = r, !.order0 = order, !.tried = <<>>]
  ELSE hist
\* the history is kept until the step after the return of channel()
LogEnd(r) ==
  IF hist.on /\ hist.cur = r
  THEN [hist EXCEPT !.cur = 0, !.order0 = <<>>, !.tried = <<>>]
  ELSE hist
Log(portal, mac, out) ==
  IF hist.on
  THEN [hist EXCEPT !.tried =
          Append(@, [portal |-> portal, mac |-> mac, out |-> out])]
  ELSE hist

\* the history of the turns.  since[m] is empty until the first rotation of m
\* is complete; from then on it holds m and the MACs of m's portal that had a
\* turn (an iteration of a loop over the MACs: attempted, or found serving
\* as many streams as allowed; or the end of a stream that the MAC served)
\* since the last rotation of m.  late[r] holds
\* <<m, n>> when m had been rotated before request r started and n has not
\* had a turn since that rotation.
TurnOf(h, n) ==
  IF h.turns
  THEN [h EXCEPT
          !.since = [m \in AllMacs |->
                       IF m \in @[m] /\ PortalOf(m) = PortalOf(n)
                       THEN @[m] \cup {n} ELSE @[m]],
          !.late = [r \in Reqs |-> {e \in @[r] : e[2] # n}]]
  ELSE h
RotationOf(h, m) == IF h.turns THEN [h EXCEPT !.since[m] = {m}] ELSE h
TurnsBegin(h, r) ==
  IF h.turns
  THEN [h EXCEPT !.late[r] =
          {e \in AllMacs \X AllMacs :
             /\ PortalOf(e[1]) = PortalOf(e[2])
             /\ e[1] \in h.since[e[1]]
             /\ e[2] \notin h.since[e[1]]}]
  ELSE h
TurnsEnd(h, r) == IF h.turns THEN [h EXCEPT !.late[r] = {}] ELSE h

\* what the upstream calls of one iteration end with: all of them succeed, or
\* no token or no channel list ("handshake"), no channel of the asked id
\* ("nochannel"), no link from getLink ("nolink"), a cmd without a second
\* token ("badcmd"), a probe that exits non-zero ("probe")
Failures == {"handshake", "nochannel", "nolink", "badcmd", "probe"}
\* the outcomes in which the link is served: every call succeeds ("ok"), or
\* every call but getProfile, whose result lines 1067 and 1162 do not look at
\* ("noprofile")
Served == {"ok", "noprofile"}
Outcomes(probing) ==
  Served \cup (IF probing THEN Failures ELSE Failures \ {"probe"})
\* the history of the fallback scan tells the failures that end an iteration
\* without a return from each other no further, but for the failed probe
Coarse(out) ==
  IF out \in Failures \ {"badcmd", "probe"} THEN "failed" ELSE out
\* the outcomes in which line 1072 found the channel and set channelName
FoundChannel == {"nolink", "badcmd", "probe"} \cup Served

\* GET /play/<portalId>/<channelId>: lines 1041-1054
Start(r) ==
  /\ req[r].pc = "idle"
  /\ \E p \in RequestPortals, w \in BOOLEAN :
       /\ req' = [req EXCEPT ![r] =
                 [@ EXCEPT !.pc = "loop", !.portalId = p, !.web = w,
                           !.macs = Keys(portalMacs[p]), !.i = 1]]
       /\ hist' = TurnsBegin(LogStart(r, Keys(portalMacs[p])), r)
  /\ UNCHANGED <<portalMacs, portalCfg, settings, occupied>>
  /\ UNCHANGED <<cacheVars, calc>>

\* the ways channel() returns
Unavailable(rec) == [rec EXCEPT !.pc = "done", !.result = "503"]
Raised(rec) == [rec EXCEPT !.pc = "done", !.result = "error"]
\* Resolved gone wrong: the stream is relayed whatever the stream method
ResolvedRelay(rec) == [rec EXCEPT !.pc = "response", !.result = "stream"]
\* lines 1106, 1122, 1127, 1232, 1238: a relayed stream unless the request is
\* not a web one and the stream method is not ffmpeg
Resolved(rec) ==
  IF rec.web \/ settings.method = "ffmpeg"
  THEN [rec EXCEPT !.pc = "response", !.result = "stream"]
  ELSE [rec EXCEPT !.pc = "done", !.result = "redirect"]
\* AfterLoop gone wrong: a web request goes on to the fallback scan too
AfterLoopFallback(rec) == [rec EXCEPT !.pc = "fb_portal", !.fp = 1]

\* line 1138, reached when the "for mac in macs" loop ends without a return
AfterLoop(rec) ==
  IF rec.web THEN Unavailable(rec)
  ELSE [rec EXCEPT !.pc = "fb_portal", !.fp = 1]

\* Admit gone wrong: the capacity of the MAC is not looked at
AdmitAlways(portalId, mac, streamsPerMac) == TRUE

\* lines 1060 and 1157: streamsPerMac == 0 or isMacFree()
Admit(portalId, mac, streamsPerMac) ==
  streamsPerMac = 0 \/ isMacFree(occupied, portalId, mac, streamsPerMac)

\* one iteration of "for mac in macs": lines 1056-1136
TryMac(r) ==
  /\ req[r].pc = "loop"
  /\ LET portalId == req[r].portalId
         mac == req[r].macs[req[r].i]
         free == Admit(portalId, mac, Cfg(r).cap)
     IN \E out \in (IF free THEN Outcomes(settings.test) ELSE {"busy"}) :
          LET seen == [req[r] EXCEPT
                         !.mac = mac,
                         !.channelName =
                            IF out \in FoundChannel THEN ChanName ELSE @]
          IN /\ hist' = TurnOf(Log(portalId, mac, out), mac)
             /\ CASE out \in Served ->
                       /\ req' = [req EXCEPT ![r] = Resolved(seen)]
                    /\ UNCHANGED portalMacs
               [] out = "badcmd" ->
                    \* line 1083: cmd.split(" ")[1] raises IndexError
                    /\ req' = [req EXCEPT ![r] = Raised(seen)]
                    /\ UNCHANGED portalMacs
               [] OTHER ->
                    \* lines 1129-1133, a busy MAC included: moveMac up to
                    \* its del; "x = macs[mac]" raises KeyError for a MAC
                    \* that another rotation has deleted
                    IF HasKey(portalMacs[portalId], mac)
                    THEN /\ portalMacs' = moveMacDel(portalMacs, portalId, mac)
                         /\ req' = [req EXCEPT ![r] =
                              [seen EXCEPT !.pc = "move",
                                 !.x = Value(portalMacs[portalId], mac)]]
                    ELSE /\ req' = [req EXCEPT ![r] =
                              [Raised(seen) EXCEPT !.cause = "KeyError"]]
                         /\ UNCHANGED portalMacs
  /\ UNCHANGED <<portalCfg, settings, occupied>>
  /\ UNCHANGED <<cacheVars, calc>>

\* the rest of moveMac (lines 263-265), then lines 1135-1136 of the loop, or
\* the break of line 1003 of the relay
MoveMacSet(r) ==
  /\ req[r].pc \in {"move", "move_end"}
  /\ portalMacs' = moveMacSet(portalMacs, req[r].portalId, req[r].mac, req[r].x)
  /\ LET rec == [req[r] EXCEPT !.x = <<>>]
         last == rec.i = Len(rec.macs) \/ ~settings.tryAll
     IN req' = [req EXCEPT ![r] =
          IF req[r].pc = "move_end"
          THEN [rec EXCEPT !.pc = "with_exit", !.cause = "end"]
          ELSE IF last THEN AfterLoop(rec)
          ELSE [rec EXCEPT !.pc = "loop", !.i = @ + 1]]
  /\ hist' = RotationOf(hist, req[r].mac)
  /\ UNCHANGED <<portalCfg, settings, occupied>>
  /\ UNCHANGED <<cacheVars, calc>>

\* "for portal in portals": lines 1146-1152, and lines 1240-1251 at its end
FallbackPortal(r) ==
  /\ req[r].pc = "fb_portal"
  /\ LET rec == req[r]
         next == [rec EXCEPT !.fp = @ + 1]
     IN req' = [req EXCEPT ![r] =
          IF rec.fp > Len(PortalOrder) THEN Unavailable(rec)
          ELSE LET portal == PortalOrder[rec.fp]
               IN IF ~portalCfg[portal].enabled THEN next
                  \* line 1149 reads channelName
                  ELSE IF rec.channelName = Unbound THEN Raised(rec)
                  ELSE IF \E e \in portalCfg[portal].fallback :
                            e[2] = rec.channelName
                  THEN [rec EXCEPT !.pc = "fb_mac", !.i = 1,
                                   !.macs = Keys(portalMacs[portal])]
                  ELSE next]
  /\ UNCHANGED <<portalMacs, portalCfg, settings, occupied, hist>>
  /\ UNCHANGED <<cacheVars, calc>>

\* one iteration of the fallback's "for mac in macs": lines 1153-1238.  The
\* admission is asked with the requested portal's id and cap (portalId and
\* streamsPerMac are not reassigned), and the probe is always run.
FallbackMac(r) ==
  /\ req[r].pc = "fb_mac"
  /\ LET rec == req[r]
         portal == PortalOrder[rec.fp]
     IN IF rec.i > Len(rec.macs)
        THEN /\ req' = [req EXCEPT ![r] =
                          [rec EXCEPT !.pc = "fb_portal", !.fp = @ + 1]]
             /\ UNCHANGED hist
        ELSE LET mac == rec.macs[rec.i]
                 free == Admit(rec.portalId, mac, Cfg(r).cap)
             IN \E out \in (IF free THEN Outcomes(TRUE) ELSE {"busy"}) :
                  LET seen == [rec EXCEPT !.mac = mac]
                  IN /\ hist' = TurnOf(Log(portal, mac, Coarse(out)), mac)
                     /\ req' = [req EXCEPT ![r] =
                          CASE out \in Served -> Resolved(seen)
                            [] out = "badcmd" -> Raised(seen)
                            [] OTHER -> [seen EXCEPT !.i = @ + 1]]
  /\ UNCHANGED <<portalMacs, portalCfg, settings, occupied>>
  /\ UNCHANGED <<cacheVars, calc>>

\* ---------------------------------------------------- channel.streamData()
\* the record occupy() appends and unoccupy() removes; "relay" stands for the
\* client address and the start time, which tell two relays apart
Session(r) ==
  [mac |-> req[r].mac, channelId |-> ChannelId,
   channelName |-> req[r].channelName, relay |-> r]

\* lines 988-990: the server starts to iterate the response body.  Of the
\* locals of channel() the generator reads portalId, mac and channelName; the
\* other ones are dead from here on
Occupy(r) ==
  /\ req[r].pc = "response"
  /\ occupied' = [occupied EXCEPT ![req[r].portalId] = Append(@, Session(r))]
  /\ req' = [req EXCEPT ![r] =
               [IdleReq EXCEPT !.pc = "popen", !.portalId = req[r].portalId,
                               !.mac = req[r].mac, !.result = req[r].result,
                               !.channelName = req[r].channelName]]
  /\ hist' = TurnsEnd(LogEnd(r), r)
  /\ UNCHANGED <<portalMacs, portalCfg, settings>>
  /\ UNCHANGED <<cacheVars, calc>>

\* lines 991-996: subprocess.Popen starts ffmpeg, or raises
Popen(r) ==
  /\ req[r].pc = "popen"
  /\ \/ req' = [req EXCEPT ![r] =
                  [@ EXCEPT !.pc = "read", !.child = "running"]]
     \/ req' = [req EXCEPT ![r] = [@ EXCEPT !.pc = "finally",
                                            !.cause = "launch"]]
  /\ UNCHANGED <<portalMacs, portalCfg, settings, occupied, hist>>
  /\ UNCHANGED <<cacheVars, calc>>

\* lines 998 and 1004: a chunk is read and yielded
ReadChunk(r) ==
  /\ req[r].pc = "read"
  /\ req[r].child = "running"
  /\ req' = [req EXCEPT ![r].pc = "yield"]
  /\ UNCHANGED <<portalMacs, portalCfg, settings, occupied, hist>>
  /\ UNCHANGED <<cacheVars, calc>>

\* lines 999-1003: end of output; poll() is 0 only after an exit with status
\* 0; moveMac up to its del, and it raises KeyError (caught at line 1005) for
\* a MAC the portal does not hold
ReadEnd(r) ==
  /\ req[r].pc = "read"
  /\ req[r].child # "none"
  /\ IF req[r].child # "exit0"
          /\ HasKey(portalMacs[req[r].portalId], req[r].mac)
     THEN /\ portalMacs' = moveMacDel(portalMacs, req[r].portalId, req[r].mac)
          /\ req' = [req EXCEPT ![r] =
               [@ EXCEPT !.pc = "move_end",
                  !.x = Value(portalMacs[req[r].portalId], req[r].mac)]]
     ELSE /\ req' = [req EXCEPT ![r] = [@ EXCEPT !.pc = "with_exit",
                                                !.cause = "end"]]
          /\ UNCHANGED portalMacs
  /\ hist' = TurnOf(hist, req[r].mac)
  /\ UNCHANGED <<portalCfg, settings, occupied>>
  /\ UNCHANGED <<cacheVars, calc>>

\* line 998 raises
ReadRaises(r) ==
  /\ req[r].pc = "read"
  /\ req' = [req EXCEPT ![r] = [@ EXCEPT !.pc = "with_exit",
                                         !.cause = "exception"]]
  /\ UNCHANGED <<portalMacs, portalCfg, settings, occupied, hist>>
  /\ UNCHANGED <<cacheVars, calc>>

\* the server takes the next chunk
NextChunk(r) ==
  /\ req[r].pc = "yield"
  /\ req' = [req EXCEPT ![r].pc = "read"]
  /\ UNCHANGED <<portalMacs, portalCfg, settings, occupied, hist>>
  /\ UNCHANGED <<cacheVars, calc>>

\* the client is gone: the server closes the generator, GeneratorExit is
\* raised at the yield of line 1004
Disconnect(r) ==
  /\ req[r].pc = "yield"
  /\ req' = [req EXCEPT ![r] = [@ EXCEPT !.pc = "with_exit",
                                         !.cause = "disconnect"]]
  /\ UNCHANGED <<portalMacs, portalCfg, settings, occupied, hist>>
  /\ UNCHANGED <<cacheVars, calc>>

\* ffmpeg ends by itself, with status 0 or not
ChildExits(r) ==
  /\ req[r].child = "running"
  /\ \E status \in {"exit0", "exit1"} :
       req' = [req EXCEPT ![r].child = status]
  /\ UNCHANGED <<portalMacs, portalCfg, settings, occupied, hist>>
  /\ UNCHANGED <<cacheVars, calc>>

\* ChildGone gone wrong: the with block is left while ffmpeg runs
ChildGoneOrNot(r) == TRUE

\* Popen.__exit__ returns from its wait()
ChildGone(r) == req[r].child # "running"

\* line 991: the with block is left, by break or by an exception; Popen's
\* __exit__ closes the pipe and waits for the child
WithExit(r) ==
  /\ req[r].pc = "with_exit"
  /\ ChildGone(r)
  /\ req' = [req EXCEPT ![r].pc = "finally"]
  /\ UNCHANGED <<portalMacs, portalCfg, settings, occupied, hist>>
  /\ UNCHANGED <<cacheVars, calc>>

\* unoccupy gone wrong: the session stays in the table
unoccupyNothing(occ, portalId, session) == occ

\* lines 975-986
unoccupy(occ, portalId, session) ==
  [occ EXCEPT ![portalId] = ListRemove(@, session)]

\* line 1008; list.remove raises ValueError when the session is not there
Unoccupy(r) ==
  /\ req[r].pc = "finally"
  /\ IF InList(occupied[req[r].portalId], Session(r))
     THEN /\ occupied' = unoccupy(occupied, req[r].portalId, Session(r))
          /\ req' = [req EXCEPT ![r].pc = "kill"]
     ELSE /\ req' = [req EXCEPT ![r].pc = "done"]
          /\ UNCHANGED occupied
  /\ UNCHANGED <<portalMacs, portalCfg, settings, hist>>
  /\ UNCHANGED <<cacheVars, calc>>

\* line 1009; ffmpeg_sp is unbound when Popen raised
Kill(r) ==
  /\ req[r].pc = "kill"
  /\ req' = [req EXCEPT ![r] =
               [@ EXCEPT !.pc = "done",
                         !.child = IF @ = "running" THEN "killed" ELSE @]]
  /\ UNCHANGED <<portalMacs, portalCfg, settings, occupied, hist>>
  /\ UNCHANGED <<cacheVars, calc>>

\* the thread of the request ends; its slot serves the next request
Return(r) ==
  /\ req[r].pc = "done"
  /\ req' = [req EXCEPT ![r] = IdleReq]
  /\ hist' = TurnsEnd(LogEnd(r), r)
  /\ UNCHANGED <<portalMacs, portalCfg, settings, occupied>>
  /\ UNCHANGED <<cacheVars, calc>>

\* ------------------------------------------------------ the specifications
Step(r) ==
  \/ Start(r)
  \/ TryMac(r)
  \/ MoveMacSet(r)
  \/ FallbackPortal(r)
  \/ FallbackMac(r)
  \/ Occupy(r)
  \/ Popen(r)
  \/ ReadChunk(r)
  \/ ReadEnd(r)
  \/ ReadRaises(r)
  \/ NextChunk(r)
  \/ Disconnect(r)
  \/ ChildExits(r)
  \/ WithExit(r)
  \/ Unoccupy(r)
  \/ Kill(r)
  \/ Return(r)

\* the threaded server: the requests and their relays interleave
Next == \E r \in Reqs : Step(r)
Spec == Init /\ [][Next]_vars

\* one thread at a time: a request or relay takes its steps while every other
\* one is not started or is a relay suspended at its yield
Parked(q) == req[q].pc \in {"idle", "yield"}
Alone(r) == \A q \in Reqs \ {r} : Parked(q)
StepAlone(r) ==
  \/ Alone(r) /\ Start(r)
  \/ Alone(r) /\ TryMac(r)
  \/ Alone(r) /\ MoveMacSet(r)
  \/ Alone(r) /\ FallbackPortal(r)
  \/ Alone(r) /\ FallbackMac(r)
  \/ Alone(r) /\ Occupy(r)
  \/ Alone(r) /\ Popen(r)
  \/ Alone(r) /\ ReadChunk(r)
  \/ Alone(r) /\ ReadEnd(r)
  \/ Alone(r) /\ ReadRaises(r)
  \/ Alone(r) /\ NextChunk(r)
  \/ Alone(r) /\ Disconnect(r)
  \/ Alone(r) /\ ChildExits(r)
  \/ Alone(r) /\ WithExit(r)
  \/ Alone(r) /\ Unoccupy(r)
  \/ Alone(r) /\ Kill(r)
  \/ Alone(r) /\ Return(r)
NextAlone == \E r \in Reqs : StepAlone(r)
SpecAlone == InitAlone /\ [][NextAlone]_vars

\* the threaded server, with the history of the turns
SpecTurns == InitTurns /\ [][Next]_vars

\* ------------------------------------------------- stb.py: the portal client
\* what the portal answers to one GET: no answer, a status that is not 2xx, a
\* body that is not JSON, JSON without the field asked for, JSON whose "js"
\* is not an object, or the answer the operation expects
Bodies == {"neterror", "status", "notjson", "nofield", "jsnotobject", "ok"}
NoResult == "None"
Raises == "raises"
\* _request_get: RequestException (raise_for_status included) gives None
request_get(body) ==
  IF body \in {"neterror", "status"} THEN NoResult ELSE "response"
\* resp.json().get("js", {}).get(field) under except (ValueError,
\* JSONDecodeError): the second get raises AttributeError on a "js" that is
\* not an object
JsField(body) ==
  CASE body = "notjson" -> NoResult
    [] body = "nofield" -> NoResult
    [] body = "jsnotobject" -> Raises
    [] OTHER -> "value"
\* resp.json().get("js") under the same except
JsValue(body) ==
  CASE body = "notjson" -> NoResult
    [] body = "nofield" -> NoResult
    [] OTHER -> "value"
getToken(body) ==
  IF request_get(body) = NoResult THEN NoResult ELSE JsField(body)
getProfile(body) ==
  IF request_get(body) = NoResult THEN NoResult ELSE JsValue(body)
getExpires(body) ==
  IF request_get(body) = NoResult THEN NoResult ELSE JsField(body)
getAllChannels(body) ==
  IF request_get(body) = NoResult THEN NoResult ELSE JsField(body)
getGenres(body) ==
  IF request_get(body) = NoResult THEN NoResult ELSE JsValue(body)
\* the loop over genre_data is under except Exception
getGenreNames(body) ==
  IF getGenres(body) = NoResult \/ body = "jsnotobject" THEN NoResult
  ELSE "value"
\* getLink also catches AttributeError and IndexError
getLink(body) ==
  IF request_get(body) = NoResult \/ JsField(body) = Raises THEN NoResult
  ELSE JsField(body)
getEpg(body) ==
  IF request_get(body) = NoResult THEN NoResult ELSE JsField(body)
ClientOps ==
  {"getToken", "getProfile", "getExpires", "getAllChannels", "getGenres",
   "getLink", "getEpg"}
ClientCall(op, body) ==
  CASE op = "getToken" -> getToken(body)
    [] op = "getProfile" -> getProfile(body)
    [] op = "getExpires" -> getExpires(body)
    [] op = "getAllChannels" -> getAllChannels(body)
    [] op = "getGenres" -> getGenres(body)
    [] op = "getLink" -> getLink(body)
    [] op = "getEpg" -> getEpg(body)

\* ------------------------------------- the playlist, the lineup and the EPG
None == <<>>                        \* a global that is None
Some(x) == <<x>>
PlaylistOps == {"playlist", "update_playlistm3u"}
LineupOps == {"lineup", "refresh_lineup"}
XmltvOps == {"xmltv", "refresh_xmltv"}
Kind(op) ==
  CASE op \in PlaylistOps -> "playlist"
    [] op \in LineupOps -> "lineup"
    [] op \in XmltvOps -> "xmltv"
    [] OTHER -> "none"
ServerHost == "127.0.0.1:8001"      \* the global host of line 84
\* the number of channel 1 in the channel list of the portal
ChanNumber(p) == IF p = "X" THEN "2" ELSE "1"
NoNumber == "None"                  \* str(channel.get("number")) of no number
\* the order of the sort keys: "1" < "2" < "None"
Rank(n) == CASE n = "1" -> 1 [] n = "2" -> 2 [] OTHER -> 3
\* SortByNumber gone wrong: the list is left as the portals gave it
Unsorted(s) == s
\* list.sort(key=number): stable
RECURSIVE SortByNumber(_)
SortByNumber(s) ==
  IF Len(s) <= 1 THEN s
  ELSE LET h == Head(s)
           rest == SortByNumber(Tail(s))
           k == Cardinality({j \in 1..Len(rest) :
                               Rank(rest[j].number) < Rank(h.number)})
       IN SubSeq(rest, 1, k) \o <<h>> \o SubSeq(rest, k + 1, Len(rest))

\* one iteration of the "for mac in macs" loop of a builder, lines 716-725,
\* 845-855 and 1362-1369: the calls are made one after the other whatever the
\* earlier ones returned; an exception of any of them is caught by the except
\* of the loop
MacOutcome(kind, bToken, bChannels, bExtra) ==
  IF getToken(bToken) = Raises \/ getAllChannels(bChannels) = Raises
    THEN "raises"
  ELSE IF kind = "xmltv" /\ getEpg(bExtra) = Raises THEN "raises"
  ELSE IF getAllChannels(bChannels) = NoResult THEN "nodata"
  ELSE IF kind = "playlist" /\ getGenreNames(bExtra) = NoResult THEN "nodata"
  ELSE IF kind = "xmltv" /\ getEpg(bExtra) = NoResult THEN "nodata"
  ELSE "data"
OutcomesOf(kind) ==
  {MacOutcome(kind, bT, bC, bE) : bT \in Bodies, bC \in Bodies, bE \in Bodies}
PlaylistOutcomes == OutcomesOf("playlist")
LineupOutcomes == OutcomesOf("lineup")
XmltvOutcomes == OutcomesOf("xmltv")
MacOutcomes(kind) ==
  CASE kind = "playlist" -> PlaylistOutcomes
    [] kind = "lineup" -> LineupOutcomes
    [] OTHER -> XmltvOutcomes
\* the text of a programme element: ET.tostring keeps the whitespace text and
\* tail that an element parsed from the indented file carries
tostring(el) == <<el.channel, el.ws>>
\* the file between the open(cache_file, "w") that truncates it and the end
\* of the write, or overwritten in part by a shorter document: ET.parse
\* raises ParseError for it
Unreadable == Some([channels |-> <<"<unreadable>">>, programmes |-> <<>>])
\* ET.parse of the file: every programme comes with its indentation; lines
\* 805-822 go on without a programme when there is no file or ET.parse raises
Parse(file) ==
  IF file = None \/ file = Unreadable THEN <<>>
  ELSE [k \in 1..Len(file[1].programmes) |->
          [channel |-> file[1].programmes[k], ws |-> TRUE]]
\* lines 916-923: the fetched programmes, then the programmes of the file
\* whose text is not the text of a fetched one
Merge(fresh, old) ==
  LET existing == {tostring(fresh[k]) : k \in 1..Len(fresh)}
  IN fresh \o SelectSeq(old, LAMBDA e : tostring(e) \notin existing)
\* lines 926-928: toprettyxml writes every element indented
Pretty(channels, programmes) ==
  [channels |-> channels,
   programmes |-> [k \in 1..Len(programmes) |-> programmes[k].channel]]
\* the programmes of the upstream EPG of the channels fetched
Fresh(acc) == [k \in 1..Len(acc) |-> [channel |-> acc[k].portal, ws |-> FALSE]]
Odd(acc) == \E k \in 1..Len(acc) : acc[k].number = NoNumber

\* PlaylistFresh gone wrong: the playlist is regenerated for every request
PlaylistNeverFresh(host) == FALSE
\* line 680; the text of a generated playlist holds its "#EXTM3U" line, so
\* its length is never 0
PlaylistFresh(host) ==
  cached_playlist # None /\ last_playlist_host = Some(host)
\* XmltvStale gone wrong: the age of the document is not looked at
XmltvAbsent == cached_xmltv = None
\* line 949
XmltvStale == cached_xmltv = None \/ last_updated = 0
\* the programmes of the EPG file, and of the documents that the refreshes
\* under way have loaded from it or are writing to it
SizeOf(doc) == IF doc = None THEN 0 ELSE Len(doc[1].programmes)
Larger(a, b) == IF a < b THEN b ELSE a
RECURSIVE InFlight(_)
InFlight(n) ==
  IF n = 0 THEN 0
  ELSE Larger(Larger(Len(client[n].old), SizeOf(client[n].built)),
              InFlight(n - 1))
FileSize == Larger(SizeOf(cache_file), InFlight(NumClients))

\* GET /playlist.m3u: lines 671-680
Playlist(c) ==
  /\ client[c].pc = "idle"
  /\ route = "playlist"
  /\ \E h \in Hosts :
       client' = [client EXCEPT ![c] =
         [IdleClient EXCEPT !.op = "playlist", !.host = h,
            !.pc = IF PlaylistFresh(h) THEN "return" ELSE "sethost"]]
  /\ UNCHANGED <<cached_playlist, last_playlist_host, cached_lineup,
                 cached_xmltv, last_updated, cache_file, enabledChannels,
                 threads, route>>
  /\ UNCHANGED <<playVars, calc>>

\* line 682
PlaylistSetHost(c) ==
  /\ client[c].pc = "sethost"
  /\ last_playlist_host' = Some(client[c].host)
  /\ client' = [client EXCEPT ![c].pc = "build"]
  /\ UNCHANGED <<cached_playlist, cached_lineup, cached_xmltv, last_updated,
                 cache_file, enabledChannels, threads, route>>
  /\ UNCHANGED <<playVars, calc>>

\* POST /update_playlistm3u: lines 688-690
UpdatePlaylist(c) ==
  /\ client[c].pc = "idle"
  /\ route = "playlist"
  /\ \E h \in Hosts :
       client' = [client EXCEPT ![c] =
         [IdleClient EXCEPT !.op = "update_playlistm3u", !.host = h,
                            !.pc = "build"]]
  /\ UNCHANGED <<cached_playlist, last_playlist_host, cached_lineup,
                 cached_xmltv, last_updated, cache_file, enabledChannels,
                 threads, route>>
  /\ UNCHANGED <<playVars, calc>>

\* GET /lineup.json: lines 1408-1411
Lineup(c) ==
  /\ client[c].pc = "idle"
  /\ route = "lineup"
  /\ client' = [client EXCEPT ![c] =
       [IdleClient EXCEPT !.op = "lineup",
          !.pc = IF cached_lineup # <<>> THEN "return" ELSE "build"]]
  /\ UNCHANGED <<cached_playlist, last_playlist_host, cached_lineup,
                 cached_xmltv, last_updated, cache_file, enabledChannels,
                 threads, route>>
  /\ UNCHANGED <<playVars, calc>>

\* POST /refresh_lineup: lines 1416-1418
RefreshLineup(c) ==
  /\ client[c].pc = "idle"
  /\ route = "lineup"
  /\ client' = [client EXCEPT ![c] =
       [IdleClient EXCEPT !.op = "refresh_lineup", !.pc = "build"]]
  /\ UNCHANGED <<cached_playlist, last_playlist_host, cached_lineup,
                 cached_xmltv, last_updated, cache_file, enabledChannels,
                 threads, route>>
  /\ UNCHANGED <<playVars, calc>>

\* GET /xmltv: lines 944-950
Xmltv(c) ==
  /\ client[c].pc = "idle"
  /\ route = "xmltv"
  /\ LET refresh == XmltvStale
     IN /\ refresh => FileSize < MaxProgs
        /\ client' = [client EXCEPT ![c] =
             [IdleClient EXCEPT !.op = "xmltv",
                !.pc = IF refresh THEN "load" ELSE "return"]]
  /\ UNCHANGED <<cached_playlist, last_playlist_host, cached_lineup,
                 cached_xmltv, last_updated, cache_file, enabledChannels,
                 threads, route>>
  /\ UNCHANGED <<playVars, calc>>

\* a thread started by start_refresh() or by editorSave() begins to run
RunThread(c) ==
  /\ client[c].pc = "idle"
  /\ \E t \in threads :
       /\ Kind(t) = route
       /\ t = "refresh_xmltv" => FileSize < MaxProgs
       /\ threads' = threads \ {t}
       /\ client' = [client EXCEPT ![c] =
            [IdleClient EXCEPT !.op = t,
               !.pc = IF t = "refresh_xmltv" THEN "load" ELSE "build"]]
  /\ UNCHANGED <<cached_playlist, last_playlist_host, cached_lineup,
                 cached_xmltv, last_updated, cache_file, enabledChannels, route>>
  /\ UNCHANGED <<playVars, calc>>

\* refresh_xmltv, lines 804-822: the programmes of the file on disk
LoadFile(c) ==
  /\ client[c].pc = "load"
  /\ client' = [client EXCEPT ![c] =
       [@ EXCEPT !.pc = "build", !.old = Parse(cache_file)]]
  /\ UNCHANGED <<cached_playlist, last_playlist_host, cached_lineup,
                 cached_xmltv, last_updated, cache_file, enabledChannels,
                 threads, route>>
  /\ UNCHANGED <<playVars, calc>>

\* the portals whose channel list may hold a channel without number and logo
OddPortals == {"X"}
\* one iteration of the "for mac in macs" loop of a builder (lines 716-725,
\* 845-855, 1362-1369) and, after its last one, the channels of the portal
\* (lines 727-771, 857-912, 1371-1395); a disabled portal and a portal without
\* enabled channels are passed over (lines 704-706, 830-836, 1352-1354)
BuildMac(c) ==
  /\ client[c].pc = "build"
  /\ LET me == client[c]
         kind == Kind(me.op)
         portal == PortalOrder[me.p]
         macs == Keys(portalMacs[portal])
         next(rec) ==
           IF me.p = Len(PortalOrder)
           THEN [rec EXCEPT !.pc = "publish", !.i = 1]
           ELSE [rec EXCEPT !.p = @ + 1, !.i = 1]
         contacted == [me EXCEPT !.called = TRUE]
     IN IF me.i = 1 /\ (~portalCfg[portal].enabled \/ ~enabledChannels[portal])
        THEN client' = [client EXCEPT ![c] = next(me)]
        ELSE \E o \in MacOutcomes(kind),
                odd \in (IF kind # "playlist" /\ portal \in OddPortals
                         THEN BOOLEAN ELSE {FALSE}) :
               LET entry ==
                     [portal |-> portal,
                      number |-> IF odd THEN NoNumber ELSE ChanNumber(portal),
                      host |-> IF kind = "playlist" THEN me.host
                               ELSE ServerHost]
               IN client' = [client EXCEPT ![c] =
                    CASE o = "raises" ->
                           IF me.i < Len(macs)
                           THEN [contacted EXCEPT !.i = @ + 1,
                                                  !.raised = TRUE]
                           ELSE next([contacted EXCEPT !.raised = TRUE])
                      [] o = "nodata" -> next(contacted)
                      [] OTHER -> next([contacted EXCEPT
                                          !.acc = Append(@, entry)])]
  /\ UNCHANGED <<cached_playlist, last_playlist_host, cached_lineup,
                 cached_xmltv, last_updated, cache_file, enabledChannels,
                 threads, route>>
  /\ UNCHANGED <<playVars, calc>>

\* the handler has its artifact published: a route that serves the cache goes
\* on to read it, a refresh ends
\* the locals of the builder are dead once it returns
BuilderEnds(rec) ==
  [rec EXCEPT !.p = 1, !.i = 1, !.acc = <<>>, !.old = <<>>, !.built = <<>>,
              !.raised = FALSE]
Published(rec) ==
  IF rec.op \in {"playlist", "lineup", "xmltv"}
  THEN [BuilderEnds(rec) EXCEPT !.pc = "return"]
  ELSE [BuilderEnds(rec) EXCEPT !.pc = "done", !.status = "ok"]
Aborted(rec) == [BuilderEnds(rec) EXCEPT !.pc = "done", !.status = "error"]

\* generate_playlist, lines 773-787: the sorts of the default settings (by
\* channel number), then the swap
PublishPlaylist(c) ==
  /\ client[c].pc = "publish"
  /\ Kind(client[c].op) = "playlist"
  /\ cached_playlist' = Some(SortByNumber(client[c].acc))
  /\ client' = [client EXCEPT ![c] = Published(@)]
  /\ UNCHANGED <<last_playlist_host, cached_lineup, cached_xmltv,
                 last_updated, cache_file, enabledChannels, threads, route>>
  /\ UNCHANGED <<playVars, calc>>

\* refresh_lineup, lines 1397-1400: int(x["GuideNumber"]) raises ValueError
\* for the number "None"
PublishLineup(c) ==
  /\ client[c].pc = "publish"
  /\ Kind(client[c].op) = "lineup"
  /\ IF Odd(client[c].acc)
     THEN /\ client' = [client EXCEPT ![c] = Aborted(@)]
          /\ UNCHANGED cached_lineup
     ELSE /\ cached_lineup' = SortByNumber(client[c].acc)
          /\ client' = [client EXCEPT ![c] = Published(@)]
  /\ UNCHANGED <<cached_playlist, last_playlist_host, cached_xmltv,
                 last_updated, cache_file, enabledChannels, threads, route>>
  /\ UNCHANGED <<playVars, calc>>

\* refresh_xmltv, lines 914-931: ET.tostring raises TypeError for the icon of
\* a channel without logo (src=None); open(cache_file, "w") truncates the file
WriteFile(c) ==
  /\ client[c].pc = "publish"
  /\ Kind(client[c].op) = "xmltv"
  /\ LET me == client[c]
         channels == [k \in 1..Len(me.acc) |-> me.acc[k].portal]
         formatted_xmltv == Pretty(channels, Merge(Fresh(me.acc), me.old))
     IN IF Odd(me.acc)
        THEN /\ client' = [client EXCEPT ![c] = Aborted(@)]
             /\ UNCHANGED cache_file
        ELSE /\ cache_file' = Unreadable
             /\ client' = [client EXCEPT ![c] =
                  [@ EXCEPT !.pc = "write", !.built = Some(formatted_xmltv),
                            !.acc = <<>>, !.old = <<>>, !.raised = FALSE]]
  /\ UNCHANGED <<cached_playlist, last_playlist_host, cached_lineup,
                 cached_xmltv, last_updated, enabledChannels, threads, route>>
  /\ UNCHANGED <<playVars, calc>>

\* refresh_xmltv, lines 931-932: the document is written from the start of
\* the file and the file is closed.  Over what another refresh has written
\* since this one's open, a shorter document leaves the other one's end
WriteClose(c) ==
  /\ client[c].pc = "write"
  /\ cache_file' \in (IF cache_file = Unreadable THEN {client[c].built}
                      ELSE {client[c].built, Unreadable})
  /\ client' = [client EXCEPT ![c].pc = "swap"]
  /\ UNCHANGED <<cached_playlist, last_playlist_host, cached_lineup,
                 cached_xmltv, last_updated, enabledChannels, threads, route>>
  /\ UNCHANGED <<playVars, calc>>

\* refresh_xmltv, lines 936-938
PublishXmltv(c) ==
  /\ client[c].pc = "swap"
  /\ cached_xmltv' = client[c].built
  /\ last_updated' = 1
  /\ client' = [client EXCEPT ![c] = Published(@)]
  /\ UNCHANGED <<cached_playlist, last_playlist_host, cached_lineup,
                 cache_file, enabledChannels, threads, route>>
  /\ UNCHANGED <<playVars, calc>>

\* lines 685, 952 and 1413: the response is made of the global as it is now
Respond(c) ==
  /\ client[c].pc = "return"
  /\ client' = [client EXCEPT ![c] =
       [@ EXCEPT !.pc = "done", !.status = "ok",
                 !.resp = CASE Kind(client[c].op) = "playlist" ->
                                 cached_playlist
                            [] Kind(client[c].op) = "lineup" ->
                                 Some(cached_lineup)
                            [] OTHER -> cached_xmltv]]
  /\ UNCHANGED <<cached_playlist, last_playlist_host, cached_lineup,
                 cached_xmltv, last_updated, cache_file, enabledChannels,
                 threads, route>>
  /\ UNCHANGED <<playVars, calc>>

\* POST /editor/save, lines 543-550: both invalidations, both threads
EditorSave(c) ==
  /\ client[c].pc = "idle"
  /\ cached_xmltv' = None
  /\ last_playlist_host' = None
  /\ threads' = threads \cup {"refresh_xmltv", "refresh_lineup"}
  /\ client' = [client EXCEPT ![c] =
       [IdleClient EXCEPT !.op = "editorSave", !.pc = "edits"]]
  /\ UNCHANGED <<cached_playlist, cached_lineup, last_updated, cache_file,
                 enabledChannels, route>>
  /\ UNCHANGED <<playVars, calc>>

\* the portals whose channel the editor enables and disables
EditedPortals == {"Y"}
\* lines 558-620: no edit, or the channel of a portal enabled or disabled
ApplyEdits(c) ==
  /\ client[c].pc = "edits"
  /\ \E edits \in {{}} \cup {{p} : p \in EditedPortals} :
       enabledChannels' =
         [p \in Portals |-> IF p \in edits THEN ~enabledChannels[p]
                            ELSE enabledChannels[p]]
  /\ client' = [client EXCEPT ![c] = [@ EXCEPT !.pc = "done",
                                               !.status = "ok"]]
  /\ UNCHANGED <<cached_playlist, last_playlist_host, cached_lineup,
                 cached_xmltv, last_updated, cache_file, threads, route>>
  /\ UNCHANGED <<playVars, calc>>

\* the thread ends; its slot serves the next request
Finish(c) ==
  /\ client[c].pc = "done"
  /\ client' = [client EXCEPT ![c] = IdleClient]
  /\ UNCHANGED <<cached_playlist, last_playlist_host, cached_lineup,
                 cached_xmltv, last_updated, cache_file, enabledChannels,
                 threads, route>>
  /\ UNCHANGED <<playVars, calc>>

\* line 949: more than 900 s pass since last_updated
Tick ==
  /\ last_updated = 1
  /\ last_updated' = 0
  /\ UNCHANGED <<cached_playlist, last_playlist_host, cached_lineup,
                 cached_xmltv, cache_file, enabledChannels, threads, route,
                 client>>
  /\ UNCHANGED <<playVars, calc>>

StepCache(c) ==
  \/ Playlist(c)
  \/ PlaylistSetHost(c)
  \/ UpdatePlaylist(c)
  \/ Lineup(c)
  \/ RefreshLineup(c)
  \/ Xmltv(c)
  \/ RunThread(c)
  \/ LoadFile(c)
  \/ BuildMac(c)
  \/ PublishPlaylist(c)
  \/ PublishLineup(c)
  \/ WriteFile(c)
  \/ WriteClose(c)
  \/ PublishXmltv(c)
  \/ Respond(c)
  \/ EditorSave(c)
  \/ ApplyEdits(c)
  \/ Finish(c)

\* the cache routes and the refresh threads, both portals enabled
InitCache ==
  /\ Start0(FALSE, FALSE)
  /\ route \in Routes
  /\ settings = defaultSettings
  /\ portalCfg = [p \in Portals |->
                    [enabled |-> TRUE, cap |-> MaxCap, fallback |-> {}]]
NextCache == Tick \/ \E c \in Clients : StepCache(c)
SpecCache == InitCache /\ [][NextCache]_vars

\* ------------------------------------------- the upstream calls of a loop
\* the loops over the MACs of a portal: channel() for the requested portal
\* (lines 1056-1136) and for a fallback portal (1153-1238), and the builders
\* generate_playlist (716-725), refresh_lineup (1362-1369) and refresh_xmltv
\* (845-855)
Paths == {"play", "fallback", "playlist", "lineup", "xmltv"}
Builders == {"playlist", "lineup", "xmltv"}
\* the call that follows getAllChannels
ExtraOp(path) ==
  CASE path = "playlist" -> "getGenres"
    [] path = "xmltv" -> "getEpg"
    [] path = "lineup" -> "none"
    [] OTHER -> "getLink"
LoopStart(path) ==
  [fn |-> "loop", path |-> path, i |-> 1, pc |-> "getToken", token |-> None,
   calls |-> <<>>]
\* the call op is issued for the MAC of the iteration with the local "token"
Issued(c, op, result) ==
  [c EXCEPT !.calls = Append(@, [op |-> op, mac |-> MacNames[c.i],
                                 token |-> IF op = "getToken" THEN None
                                           ELSE c.token,
                                 result |-> result])]
\* the iteration ends without a return or break: the next MAC, if any
NextIteration(c) ==
  IF c.i < MaxMacs THEN [c EXCEPT !.i = @ + 1, !.pc = "getToken"]
  ELSE [c EXCEPT !.pc = "end"]
LoopEnds(c) == [c EXCEPT !.pc = "end"]
\* a call raises: channel() has no try around the calls of the requested
\* portal; the other loops catch the exception and go on
CallRaises(c) == IF c.path = "play" THEN LoopEnds(c) ELSE NextIteration(c)

\* token = stb.getToken(url, mac, proxy): lines 1064-1065, 1161, 718, 847,
\* 1364; only line 1065 tests the token
CallGetToken ==
  /\ calc.fn = "loop"
  /\ calc.pc = "getToken"
  /\ \E body \in Bodies :
       LET res == getToken(body)
           got == IF res = "value" THEN Some(MacNames[calc.i]) ELSE None
           c == Issued(calc, "getToken", got)
       IN calc' =
            CASE res = Raises -> CallRaises(c)
              [] res = NoResult /\ calc.path = "play" ->
                   NextIteration([c EXCEPT !.token = None])
              [] OTHER -> [c EXCEPT !.token = got, !.pc = "getProfile"]
  /\ UNCHANGED <<playVars, cacheVars>>

\* stb.getProfile(url, mac, token, proxy): lines 1067, 1162, 719, 848, 1365
CallGetProfile ==
  /\ calc.fn = "loop"
  /\ calc.pc = "getProfile"
  /\ calc' = [Issued(calc, "getProfile", None) EXCEPT
                !.pc = "getAllChannels"]
  /\ UNCHANGED <<playVars, cacheVars>>

\* stb.getAllChannels(url, mac, token, proxy): lines 1068, 1163, 720, 849,
\* 1366; channel() goes on with a channel list only, the builders go on
\* whatever is returned
CallGetAllChannels ==
  /\ calc.fn = "loop"
  /\ calc.pc = "getAllChannels"
  /\ \E body \in Bodies :
       LET res == getAllChannels(body)
           c == Issued(calc, "getAllChannels", None)
       IN calc' =
            CASE res = Raises -> CallRaises(c)
              [] calc.path = "lineup" -> LoopEnds(c)
              [] calc.path \in Builders -> [c EXCEPT !.pc = "extra"]
              [] res = NoResult -> NextIteration(c)
              [] OTHER -> [c EXCEPT !.pc = "extra"]
  /\ UNCHANGED <<playVars, cacheVars>>

\* stb.getGenreNames (line 721), stb.getEpg (line 850), stb.getLink (lines
\* 1081 and 1180; not called for a cmd without "http://localhost/")
CallExtra ==
  /\ calc.fn = "loop"
  /\ calc.pc = "extra"
  /\ \E body \in Bodies, local \in BOOLEAN :
       LET op == ExtraOp(calc.path)
           res == ClientCall(op, body)
           c == Issued(calc, op, None)
       IN calc' =
            CASE calc.path \in Builders ->
                   IF res = Raises THEN CallRaises(c) ELSE LoopEnds(c)
              [] ~local -> LoopEnds(calc)
              [] res = NoResult -> NextIteration(c)
              [] OTHER -> LoopEnds(c)
  /\ UNCHANGED <<playVars, cacheVars>>

\* one loop, from its first iteration, with the default configuration
Defaults0 ==
  /\ Globals0(FALSE, FALSE)
  /\ route = "playlist"
  /\ settings = defaultSettings
  /\ portalCfg = [p \in Portals |->
                    [enabled |-> TRUE, cap |-> MaxCap, fallback |-> {}]]
InitCalls == Defaults0 /\ calc \in {LoopStart(path) : path \in Paths}
NextCalls ==
  CallGetToken \/ CallGetProfile \/ CallGetAllChannels \/ CallExtra
SpecCalls == InitCalls /\ [][NextCalls]_vars

\* --------------------------------------- the sorts of generate_playlist
\* text is a sequence of characters; Ascii holds the characters of the
\* playlist entries in the order of their code points, which is the order
\* in which Python compares str
Ascii ==
  <<"\n", " ", "\"", "#", ",", "-", "/", "0", "1", "9", ":", "=", "E", "F",
    "I", "N", "T", "X", "a", "b", "c", "d", "e", "g", "h", "i", "l", "n",
    "o", "p", "r", "t", "u", "v", "y">>
Ord(ch) == CHOOSE k \in 1..Len(Ascii) : Ascii[k] = ch
\* a < b for two str
TextLess(a, b) ==
  LET n == IF Len(a) < Len(b) THEN Len(a) ELSE Len(b)
      differ == {k \in 1..n : a[k] # b[k]}
  IN IF differ = {} THEN Len(a) < Len(b)
     ELSE LET k == CHOOSE d \in differ : \A e \in differ : d <= e
          IN Ord(a[k]) < Ord(b[k])
\* the index of the first occurrence of sep in text, Len(text) + 1 without
\* one
Find(text, sep) ==
  LET at == {k \in 1..(Len(text) - Len(sep) + 1) :
               SubSeq(text, k, k + Len(sep) - 1) = sep}
  IN IF at = {} THEN Len(text) + 1
     ELSE CHOOSE k \in at : \A j \in at : k <= j
\* text.split(sep)[0] and the rest of the text behind the first sep
Before(text, sep) == SubSeq(text, 1, Find(text, sep) - 1)
After(text, sep) == SubSeq(text, Find(text, sep) + Len(sep), Len(text))

\* the names, numbers and genres of the channels of a portal (or the custom
\* ones of the editor): a name may hold a comma, a number has one digit or
\* more
MaxChannels == 2
ChannelNames == {<<"a">>, <<"b">>, <<"b", ",", "a">>}
ChannelNumbers == {<<"9">>, <<"1", "0">>}
ChannelGenres == {<<"g">>, <<"h">>}
PlaylistChannels ==
  [name : ChannelNames, number : ChannelNumbers, genre : ChannelGenres]
\* the settings that generate_playlist reads
PlaylistSettings ==
  [sortName : BOOLEAN, useNumbers : BOOLEAN, sortNumber : BOOLEAN,
   useGenres : BOOLEAN, sortGenre : BOOLEAN]
\* the literals of lines 744-770
ExtInf ==
  <<"#", "E", "X", "T", "I", "N", "F", ":", "-", "1", " ", "t", "v", "g",
    "-", "i", "d", "=", "\"">>
TvgChno ==
  <<"\"", " ", "t", "v", "g", "-", "c", "h", "n", "o", "=", "\"">>
ChnoMark ==
  <<"t", "v", "g", "-", "c", "h", "n", "o", "=", "\"">>
GroupTitle ==
  <<"\"", " ", "g", "r", "o", "u", "p", "-", "t", "i", "t", "l", "e", "=",
    "\"">>
GroupMark ==
  <<"g", "r", "o", "u", "p", "-", "t", "i", "t", "l", "e", "=", "\"">>
PlayUrl ==
  <<"h", "t", "t", "p", ":", "/", "/", "h", "/", "p", "l", "a", "y", "/",
    "X", "/", "1">>
\* lines 744-770: the entry of a channel; the EPG id is the channel name
\* unless the editor has set one (lines 741-743)
Entry(ch, s) ==
  ExtInf \o ch.name
    \o (IF s.useNumbers THEN TvgChno \o ch.number ELSE <<>>)
    \o (IF s.useGenres THEN GroupTitle \o ch.genre ELSE <<>>)
    \o <<"\"", ",">> \o ch.name \o <<"\n">> \o PlayUrl
\* the keys of lines 775, 778 and 781
NameKey(k) == Before(Before(After(k, <<",">>), <<",">>), <<"\n">>)
NumberKey(k) == Before(After(k, ChnoMark), <<"\"">>)
GenreKey(k) == Before(After(k, GroupMark), <<"\"">>)
\* the place of each key among the keys in the order of str: the number of
\* keys that are less
TextRanks(keys) ==
  [k \in 1..Len(keys) |->
     Cardinality({j \in 1..Len(keys) : TextLess(keys[j], keys[k])})]
\* list.sort(key=...): the elements in the order of their keys, elements
\* with equal keys in the order they had; ranks[k] stands for the key of
\* s[k]
Sorted(s, ranks) ==
  LET n == Len(s)
      pos(i) == 1 + Cardinality({j \in 1..n :
                  ranks[j] < ranks[i] \/ (ranks[j] = ranks[i] /\ j < i)})
  IN [k \in 1..n |-> s[CHOOSE i \in 1..n : pos(i) = k]]
\* the text of the entries
LinesOf(entries) == [k \in 1..Len(entries) |-> entries[k].line]

\* generate_playlist from line 773 on, for the channels in the order of the
\* portals and of their channel lists; "of" keeps the channel of each entry
PlaylistStart(s, chans) ==
  [fn |-> "generate_playlist", settings |-> s, pc |-> "name",
   of |-> chans,
   channels |-> [k \in 1..Len(chans) |->
                   [of |-> chans[k], line |-> Entry(chans[k], s)]]]
\* lines 774-775
SortName ==
  /\ calc.fn = "generate_playlist"
  /\ calc.pc = "name"
  /\ calc' = [calc EXCEPT
       !.pc = "number",
       !.channels =
         IF calc.settings.sortName
         THEN LET lines == LinesOf(calc.channels)
              IN Sorted(@, TextRanks(
                   [k \in 1..Len(lines) |-> NameKey(lines[k])]))
         ELSE @]
  /\ UNCHANGED <<playVars, cacheVars>>
\* lines 776-778
SortNumber ==
  /\ calc.fn = "generate_playlist"
  /\ calc.pc = "number"
  /\ calc' = [calc EXCEPT
       !.pc = "genre",
       !.channels =
         IF calc.settings.useNumbers /\ calc.settings.sortNumber
         THEN LET lines == LinesOf(calc.channels)
              IN Sorted(@, TextRanks(
                   [k \in 1..Len(lines) |-> NumberKey(lines[k])]))
         ELSE @]
  /\ UNCHANGED <<playVars, cacheVars>>
\* lines 779-781
SortGenre ==
  /\ calc.fn = "generate_playlist"
  /\ calc.pc = "genre"
  /\ calc' = [calc EXCEPT
       !.pc = "done",
       !.channels =
         IF calc.settings.useGenres /\ calc.settings.sortGenre
         THEN LET lines == LinesOf(calc.channels)
              IN Sorted(@, TextRanks(
                   [k \in 1..Len(lines) |-> GenreKey(lines[k])]))
         ELSE @]
  /\ UNCHANGED <<playVars, cacheVars>>

RECURSIVE SeqsUpTo(_, _)
SeqsUpTo(S, n) ==
  IF n = 0 THEN {<<>>}
  ELSE LET shorter == SeqsUpTo(S, n - 1)
       IN shorter \cup {Append(s, x) : s \in shorter, x \in S}
InitSort ==
  /\ Defaults0
  /\ calc \in {PlaylistStart(s, chans) :
                 s \in PlaylistSettings,
                 chans \in SeqsUpTo(PlaylistChannels, MaxChannels)}
NextSort == SortName \/ SortNumber \/ SortGenre
SpecSort == InitSort /\ [][NextSort]_vars

\* ------------------------------------- the programmes of refresh_xmltv
\* time in half hours; strftime("%Y%m%d%H%M%S") as day, hour and half hour
HalfHoursPerDay == 48
Format(t) == <<t \div HalfHoursPerDay, (t % HalfHoursPerDay) \div 2, t % 2>>
Decode(text) == text[1] * HalfHoursPerDay + text[2] * 2 + text[3]
\* a <= b for two formatted times
FormatLeq(a, b) ==
  \/ a[1] < b[1]
  \/ a[1] = b[1] /\ a[2] < b[2]
  \/ a[1] = b[1] /\ a[2] = b[2] /\ a[3] <= b[3]
\* datetime.replace(minute=0, second=0, microsecond=0)
WholeHour(t) == t - (t % 2)
\* datetime.utcnow() of a refresh: on the hour, or half past
EpgNow == {200, 201}
\* the channels of the portal's list, enabled or not in the editor, with or
\* without a custom EPG id
EpgIds == <<"1", "2">>
EpgNames == <<"one", "two">>
EpgChannelList ==
  {[k \in 1..Len(EpgIds) |->
      [id |-> EpgIds[k], name |-> EpgNames[k], number |-> EpgIds[k],
       enabled |-> f[k][1], custom |-> f[k][2]]] :
     f \in [1..Len(EpgIds) -> BOOLEAN \X {None, Some("e")}]}
\* the programmes of a channel in the upstream EPG: of three days ago, or of
\* the hour to come
EpgProgramme(now, age) ==
  [name |-> "show", start_timestamp |-> now - age,
   stop_timestamp |-> now - age + 2]
ProgrammeLists(now) ==
  LET old == EpgProgramme(now, 3 * HalfHoursPerDay)
      new == EpgProgramme(now, 0)
  IN {<<>>, <<old>>, <<new>>, <<old, new>>}
\* the "data" of get_epg_info: a dict from channel ids to programme lists
\* that may lack a channel
NoKey == [known |-> FALSE, list |-> <<>>]
EpgData(now) ==
  [{EpgIds[k] : k \in 1..Len(EpgIds)} ->
     {NoKey} \cup {[known |-> TRUE, list |-> l] : l \in ProgrammeLists(now)}]
\* lines 863-864
EpgIdOf(ch) == IF ch.custom # None THEN ch.custom[1] ELSE ch.number
\* NoData gone wrong: only the channels that the EPG does not know
NoDataKey(epg, channelId) == ~epg[channelId].known
\* line 872: channelId not in epg or not epg.get(channelId)
NoData(epg, channelId) ==
  ~epg[channelId].known \/ epg[channelId].list = <<>>
\* lines 874-887
Placeholder(now, ch) ==
  LET start_time == WholeHour(now)
      stop_time == start_time + HalfHoursPerDay
  IN [start |-> Format(start_time), stop |-> Format(stop_time),
      channel |-> EpgIdOf(ch), title |-> ch.name, desc |-> ch.name]
\* lines 889-907: the programmes of the channel that start after the day
\* before yesterday
Fetched(now, ch, list) ==
  LET day_before_yesterday_str == Format(now - 2 * HalfHoursPerDay)
      element(p) ==
        [start |-> Format(p.start_timestamp),
         stop |-> Format(p.stop_timestamp), channel |-> EpgIdOf(ch),
         title |-> p.name, desc |-> p.name]
      all == [k \in 1..Len(list) |-> element(list[k])]
  IN SelectSeq(all, LAMBDA e : ~FormatLeq(e.start, day_before_yesterday_str))

EpgStart(now, chans, epg) ==
  [fn |-> "refresh_xmltv", now |-> now, allChannels |-> chans, epg |-> epg,
   pc |-> "portal", k |-> 1, programmes |-> <<>>]
\* line 857: the portal is gone through when it has channels and an EPG
\* with a channel at least
EpgPortal ==
  /\ calc.fn = "refresh_xmltv"
  /\ calc.pc = "portal"
  /\ calc' = [calc EXCEPT !.pc =
       IF \E id \in DOMAIN calc.epg : calc.epg[id].known
       THEN "channel" ELSE "skipped"]
  /\ UNCHANGED <<playVars, cacheVars>>
\* lines 858-907: one channel of the list
EpgChannel ==
  /\ calc.fn = "refresh_xmltv"
  /\ calc.pc = "channel"
  /\ LET ch == calc.allChannels[calc.k]
         more == IF ~ch.enabled THEN <<>>
                 ELSE IF NoData(calc.epg, ch.id)
                 THEN <<Placeholder(calc.now, ch)>>
                 ELSE Fetched(calc.now, ch, calc.epg[ch.id].list)
     IN calc' = [calc EXCEPT
          !.programmes = @ \o more,
          !.k = @ + 1,
          !.pc = IF calc.k = Len(calc.allChannels) THEN "done" ELSE "channel"]
  /\ UNCHANGED <<playVars, cacheVars>>
InitEpg ==
  /\ Defaults0
  /\ calc \in UNION {{EpgStart(now, chans, epg) :
                         chans \in EpgChannelList, epg \in EpgData(now)} :
                      now \in EpgNow}
NextEpg == EpgPortal \/ EpgChannel
SpecEpg == InitEpg /\ [][NextEpg]_vars

\* ---------------------------------------------------------------- claims
Returned(r) == req[r].pc \in {"response", "done"}
InRelay(r) ==
  req[r].pc \in {"popen", "read", "move_end", "yield", "with_exit", "finally"}
\* the sessions of the table that relay r has inserted
SessionsOf(r) ==
  {<<p, k>> \in Portals \X (1..NumReq) :
     k <= Len(occupied[p]) /\ occupied[p][k].relay = r}
SessionsOn(p, mac) ==
  {k \in 1..Len(occupied[p]) : occupied[p][k].mac = mac}
Tried == hist.tried
Index(seq, x) == CHOOSE k \in 1..Len(seq) : seq[k] = x
\* seq with its first n elements moved behind the other ones
Rotated(seq, n) == SubSeq(seq, n + 1, Len(seq)) \o SubSeq(seq, 1, n)

\* C1: a MAC of a portal with a cap N > 0 never has more than N sessions in
\* the occupancy table.
C1_CapRespected ==
  \A p \in Portals, mac \in AllMacs :
    portalCfg[p].cap > 0 => Cardinality(SessionsOn(p, mac)) <= portalCfg[p].cap

C4_BusyMacNotRotated ==
  [][\A r \in Reqs :
       (/\ req[r].pc = "loop"
        /\ req'[r] # req[r]
        /\ ~Admit(req[r].portalId, req[r].macs[req[r].i],
                  portalCfg[req[r].portalId].cap))
       => portalMacs' = portalMacs]_vars

\* C5: a request that is not a web one and whose every iteration found the MAC
\* busy or failed at its handshake ends with 503 unless a fallback serves it:
\* it never ends with an error.
C5_Unavailable503 ==
  \A r \in Reqs :
    (/\ hist.cur = r
     /\ req[r].pc = "done"
     /\ ~req[r].web
     /\ \A k \in 1..Len(Tried) : Tried[k].out \in {"handshake", "busy"})
    => req[r].result = "503"

\* C6: with "try all macs" off, a request whose first MAC fails ends with 503,
\* or is served by another portal's fallback, and no other MAC of its portal
\* is attempted.
C6_OnlyFirstMac ==
  \A r \in Reqs :
    (/\ hist.cur = r
     /\ Returned(r)
     /\ ~settings.tryAll
     /\ Len(Tried) >= 1
     /\ Tried[1].out \in Failures \ {"badcmd"})
    => /\ \/ req[r].result = "503"
          \/ /\ req[r].result \in {"stream", "redirect"}
             /\ Tried[Len(Tried)].portal # req[r].portalId
       /\ \A k \in 2..Len(Tried) :
            Tried[k].portal = req[r].portalId
              => Tried[k].mac = Tried[1].mac \/ Tried[k].out = "busy"

\* C7: a request for X that is not a web one and has seen every MAC of X fail,
\* while the enabled portal Y holds a fallback entry for the channel name, is
\* served (stream or redirect) unless the MAC of Y was attempted too and was
\* busy or failed.
C7_FallbackServes ==
  \A r \in Reqs :
    (/\ hist.cur = r
     /\ Returned(r)
     /\ ~req[r].web
     /\ req[r].portalId = "X"
     /\ Len(Tried) >= Len(hist.order0)
     /\ \A k \in 1..Len(hist.order0) :
          /\ Tried[k].portal = "X"
          /\ Tried[k].out \in Failures \ {"badcmd"}
     /\ portalCfg["Y"].enabled
     /\ <<FallbackId, ChanName>> \in portalCfg["Y"].fallback)
    => \/ req[r].result \in {"stream", "redirect"}
       \/ \E k \in 1..Len(Tried) : Tried[k].portal = "Y"

\* C8: a relay whose client has disconnected is not kept waiting for its child
\* to end: it goes on to remove its session and to kill the child.
C8_DisconnectCleansUp ==
  \A r \in Reqs :
    req[r].cause = "disconnect" /\ req[r].pc = "with_exit"
      => req[r].child # "running"

\* C9: a relay holds exactly one session from its occupy() to its unoccupy()
\* and none before and after, on every way out of the relay; with no relay
\* under way the table is empty.
C9_ReleasedOnce ==
  /\ \A r \in Reqs :
       Cardinality(SessionsOf(r)) = IF InRelay(r) THEN 1 ELSE 0
  /\ (\A r \in Reqs : ~InRelay(r)) => \A p \in Portals : occupied[p] = <<>>
\* a relay has ended by a disconnect, another one because Popen raised, and
\* the table is empty
C9_Witness ==
  /\ \E r, q \in Reqs :
       /\ req[r].pc = "done" /\ req[r].cause = "disconnect"
       /\ req[q].pc = "done" /\ req[q].cause = "launch"
  /\ \A p \in Portals : occupied[p] = <<>>

\* C10: the child of a relay runs only while the session of the relay is in
\* the table, and the session is in the table only between the occupy() and
\* the unoccupy() of the relay.
C10_SessionSpansChild ==
  \A r \in Reqs :
    /\ req[r].child = "running" => SessionsOf(r) # {}
    /\ SessionsOf(r) # {} => InRelay(r)
\* the client has disconnected, the child still runs, the session is held
C10_Witness ==
  \E r \in Reqs :
    /\ req[r].cause = "disconnect"
    /\ req[r].child = "running"
    /\ SessionsOf(r) # {}

\* C11: a relay that reads the end of its child's output while the child has
\* exited with a non-zero status moves the MAC it streams with behind the
\* other MACs of the portal that MAC belongs to; after that the relay only
\* cleans up: it rotates nothing more, attempts no MAC and starts no process.
C11_RelayFailureRotates ==
  [][\A r \in Reqs :
       /\ (/\ req[r].pc = "read"
           /\ req[r].child = "exit1"
           /\ req'[r].pc \in {"move_end", "with_exit"}
           /\ req'[r].cause # "exception")
          => /\ req'[r].pc = "move_end"
             /\ portalMacs' =
                  moveMacDel(portalMacs, PortalOf(req[r].mac), req[r].mac)
       /\ (req[r].pc = "move_end" /\ req'[r].pc # "move_end")
          => /\ req'[r].pc = "with_exit" /\ req'[r].cause = "end"
             /\ portalMacs' =
                  moveMacSet(portalMacs, PortalOf(req[r].mac), req[r].mac,
                             req[r].x)
       /\ (req[r].cause = "end" /\ req'[r] # req[r])
          => /\ portalMacs' = portalMacs
             /\ req'[r].pc \in {"with_exit", "finally", "kill", "done",
                               "idle"}]_vars

C20_FallbackOtherPortals ==
  [][\A r \in Reqs :
       (req[r].pc = "fb_mac" /\ hist'.tried # hist.tried)
       => LET e == hist'.tried[Len(hist'.tried)]
          IN e.out = "busy" \/ e.portal # req[r].portalId]_vars

\* C12: a request for the playlist from the host it was last generated for,
\* and a request for a lineup that is not empty, go straight to the response
\* without an upstream call and leave the caches alone; the response is the
\* cached value
C12_CachedIsServed ==
  [][\A c \in Clients :
       LET me == client[c]
           after == client'[c]
           caches == <<cached_playlist, last_playlist_host, cached_lineup>>
       IN /\ (/\ me.pc = "idle" /\ after.op = "playlist"
              /\ cached_playlist # None
              /\ last_playlist_host = Some(after.host))
             => after.pc = "return" /\ ~after.called /\ caches' = caches
          /\ (me.pc = "idle" /\ after.op = "lineup" /\ cached_lineup # <<>>)
             => after.pc = "return" /\ ~after.called /\ caches' = caches
          /\ (/\ me.pc = "return" /\ after # me
              /\ me.op \in {"playlist", "lineup"})
             => /\ after.pc = "done" /\ after.called = me.called
                /\ after.resp = (IF me.op = "playlist" THEN cached_playlist
                                 ELSE Some(cached_lineup))
                /\ caches' = caches]_vars
\* a playlist with a channel was served from the cache
C12_Witness ==
  \E c \in Clients :
    /\ client[c].op = "playlist" /\ client[c].pc = "done"
    /\ ~client[c].called
    /\ client[c].resp = cached_playlist
    /\ cached_playlist # None /\ Len(cached_playlist[1]) >= 1
    /\ last_playlist_host = Some(client[c].host)

\* C13: every playlist served to a request from host H holds only play URLs
\* built on H
C13_PlaylistOfRequestHost ==
  \A c \in Clients :
    (client[c].op = "playlist" /\ client[c].pc = "done"
       /\ client[c].resp # None)
      => \A k \in 1..Len(client[c].resp[1]) :
           client[c].resp[1][k].host = client[c].host

\* C14: no programme is held more than once by the EPG file or by the cached
\* EPG document
NoDuplicate(doc) ==
  doc = None
    \/ \A j, k \in 1..Len(doc[1].programmes) :
         doc[1].programmes[j] = doc[1].programmes[k] => j = k
C14_EpgDuplicateFree == NoDuplicate(cache_file) /\ NoDuplicate(cached_xmltv)

\* C15: in a builder, an iteration on a MAC that yields no data for the
\* artifact is followed by the iteration on the next MAC of the portal while
\* there is one, and an iteration that yields data ends the portal
C15_NextMacUntilData ==
  [][\A c \in Clients :
       LET me == client[c]
           after == client'[c]
           portal == PortalOrder[me.p]
           passed == me.i = 1 /\ (~portalCfg[portal].enabled
                                    \/ ~enabledChannels[portal])
       IN (me.pc = "build" /\ after # me /\ ~passed)
            => /\ (after.acc = me.acc /\ me.i < Len(Keys(portalMacs[portal])))
                  => (after.pc = "build" /\ after.p = me.p
                        /\ after.i = me.i + 1)
               /\ after.acc # me.acc
                  => (after.pc = "publish" \/ after.p = me.p + 1)]_vars

\* C16: a builder that has fetched channels it can process from a portal
\* always ends by publishing an artifact that holds them, whatever the other
\* portal gave
Holds(artifact, acc) ==
  \A k \in 1..Len(acc) :
    \E j \in 1..Len(artifact) : artifact[j].portal = acc[k].portal
C16_OtherPortalsPublished ==
  [][\A c \in Clients :
       LET me == client[c]
           after == client'[c]
           good == SelectSeq(me.acc, LAMBDA e : e.number # NoNumber)
       IN (me.pc = "publish" /\ after # me /\ good # <<>>)
            => /\ after.status # "error"
               /\ Kind(me.op) = "playlist"
                    => cached_playlist' # None
                         /\ Holds(cached_playlist'[1], good)
               /\ Kind(me.op) = "lineup" => Holds(cached_lineup', good)
               /\ Kind(me.op) = "xmltv"
                    => after.built # None
                         /\ \A k \in 1..Len(good) :
                              \E j \in 1..Len(after.built[1].channels) :
                                after.built[1].channels[j] = good[k].portal]_vars

\* C17: the response that a reader makes from a cache is an artifact, never
\* an absent one
C17_ResponseIsArtifact ==
  \A c \in Clients :
    (client[c].op \in {"playlist", "lineup", "xmltv"}
       /\ client[c].pc = "done" /\ client[c].status = "ok")
      => client[c].resp # None

\* C18: no call of a portal client operation made by a builder raises into
\* the builder
C18_ClientNeverRaises == \A c \in Clients : ~client[c].raised

C22_MacNeverMissing ==
  \A r \in Reqs :
    /\ req[r].pc \in {"loop", "move"}
         => \A m \in XMacs :
              Cardinality({k \in 1..Len(req[r].macs) : req[r].macs[k] = m}) = 1
    /\ req[r].cause # "KeyError"

\* C23: an attempt of a request on a MAC of its portal in which the
\* handshake, the profile call or the channel list fails does not serve the
\* stream: it rotates the MAC behind the other ones, and the request goes on
\* with its next MAC when "try all macs" is on and there is one
C23_FailedCallRotates ==
  [][\A r \in Reqs :
       LET rec == req[r]
           mac == rec.macs[rec.i]
           n == Len(hist'.tried)
       IN /\ (/\ hist.cur = r /\ rec.pc = "loop"
              /\ n = Len(Tried) + 1
              /\ hist'.tried[n].out \in {"handshake", "noprofile"})
             => /\ req'[r].pc = "move"
                /\ portalMacs' = moveMacDel(portalMacs, rec.portalId, mac)
          /\ (hist.cur = r /\ rec.pc = "move" /\ req'[r] # rec)
             => /\ portalMacs' =
                     moveMacSet(portalMacs, rec.portalId, rec.mac, rec.x)
                /\ (settings.tryAll /\ rec.i < Len(rec.macs))
                     => req'[r].pc = "loop" /\ req'[r].i = rec.i + 1]_vars

\* C24: an attempt of a request on a MAC of its portal that fails to resolve
\* (no channel of the asked id, no link from getLink, a cmd without a second
\* token, a probe that exits non-zero) rotates the MAC behind the other ones,
\* once, and the request goes on with its next MAC when "try all macs" is on
\* and there is one
ResolutionFailures == {"nochannel", "nolink", "badcmd", "probe"}
C24_ResolutionFailureRotates ==
  [][\A r \in Reqs :
       LET rec == req[r]
           mac == rec.macs[rec.i]
           n == Len(hist'.tried)
       IN /\ (/\ hist.cur = r /\ rec.pc = "loop"
              /\ n = Len(Tried) + 1
              /\ hist'.tried[n].out \in ResolutionFailures)
             => /\ req'[r].pc = "move"
                /\ portalMacs' = moveMacDel(portalMacs, rec.portalId, mac)
          /\ (hist.cur = r /\ rec.pc = "move" /\ req'[r] # rec)
             => /\ portalMacs' =
                     moveMacSet(portalMacs, rec.portalId, rec.mac, rec.x)
                /\ req'[r].pc # "move"
                /\ (settings.tryAll /\ rec.i < Len(rec.macs))
                     => req'[r].pc = "loop" /\ req'[r].i = rec.i + 1]_vars


\* C25: a MAC that has been rotated is attempted by a request that started
\* after the rotation only when every other MAC of the portal has had a turn
\* (was attempted, or was serving its streams) since that rotation.
C25_RoundRobin ==
  [][\A r \in Reqs :
       LET rec == req[r]
           mac == rec.macs[rec.i]
       IN (/\ rec.pc = "loop"
           /\ req'[r] # rec
           /\ Admit(rec.portalId, mac, Cfg(r).cap))
          => \A n \in AllMacs : <<mac, n>> \notin hist.late[r]]_vars

\* C26: a relay that sees the end of the child's output while the child has
\* exited with status 0, or while its exit status is not known yet, leaves
\* the MAC order of every portal as it is.
C26_RelayRotatesOnlyOnFailure ==
  [][\A r \in Reqs :
       (/\ req[r].pc = "read"
        /\ req[r].child \in {"exit0", "running"}
        /\ req'[r].pc \in {"move_end", "with_exit"})
       => portalMacs' = portalMacs]_vars

\* C27: with the stream method "redirect", a request that is not a web one
\* and resolves a link, in the loop over the portal's MACs or in the fallback
\* scan, returns a redirect; no relay is started for it (no session is
\* added to the occupancy table, no child process exists) up to its end.
C27_RedirectWithoutRelay ==
  [][\A r \in Reqs :
       /\ (/\ req[r].pc \in {"loop", "fb_mac"}
           /\ req'[r].result \in {"stream", "redirect"}
           /\ settings.method = "redirect"
           /\ ~req[r].web)
          => /\ req'[r].result = "redirect"
             /\ req'[r].pc = "done"
             /\ req'[r].child = "none"
             /\ occupied' = occupied
       /\ (req[r].result = "redirect" /\ req'[r] # req[r])
          => /\ req'[r] = IdleReq
             /\ occupied' = occupied]_vars
\* a link resolved by the fallback scan is answered with a redirect
C27_Witness ==
  \E r \in Reqs :
    /\ req[r].result = "redirect"
    /\ req[r].mac \in YMacs
    /\ hist.cur = r
    /\ Len(Tried) > MaxMacs
    /\ occupied = [p \in Portals |-> <<>>]

\* C28: with "test streams" disabled no iteration, over the MACs of the
\* requested portal or of a fallback portal, runs the probe: none ends with
\* a failed probe.
C28_NoProbeWhenDisabled ==
  [][\A r \in Reqs :
       (/\ ~settings.test
        /\ req[r].pc \in {"loop", "fb_mac"}
        /\ Len(hist'.tried) = Len(hist.tried) + 1)
       => hist'.tried[Len(hist'.tried)].out # "probe"]_vars

\* C29: the admission check that an iteration is about to make for (portal,
\* mac), whatever the cap, is true exactly when cap is 0 or fewer than cap
\* sessions of the portal have the MAC; the sessions of
\* the other MACs of the portal and the sessions of the other portals do not
\* change the answer.
SessionsWith(occ, p, m) == SelectSeq(occ[p], LAMBDA s : s.mac = m)
\* occ without the sessions of the other MACs of p, and with the sessions of
\* p as the sessions of every other portal
OthersChanged(occ, p, m) ==
  [q \in Portals |-> IF q = p THEN SessionsWith(occ, p, m) ELSE occ[p]]
C29_AdmissionCountsOwnSessions ==
  \A r \in Reqs :
    (req[r].pc \in {"loop", "fb_mac"} /\ req[r].i <= Len(req[r].macs))
    => LET p == req[r].portalId
           m == req[r].macs[req[r].i]
       IN \A cap \in 0..(MaxCap + 1) :
            /\ Admit(p, m, cap)
                 = (cap = 0 \/ Len(SessionsWith(occupied, p, m)) < cap)
            /\ isMacFree(OthersChanged(occupied, p, m), p, m, cap)
                 = isMacFree(occupied, p, m, cap)
\* a MAC is refused while a stream is relayed on it, and the other MAC of
\* the portal is admitted
C29_Witness ==
  \E r \in Reqs :
    LET rec == req[r]
    IN /\ hist.cur = r
       /\ rec.pc = "move"
       /\ Tried[Len(Tried)] = [portal |-> rec.portalId, mac |-> rec.mac, out |-> "busy"]
       /\ Cfg(r).cap > 0
       /\ ~Admit(rec.portalId, rec.mac, Cfg(r).cap)
       /\ \E n \in XMacs : Admit(rec.portalId, n, Cfg(r).cap)

\* C30: every session is recorded under the portal of its MAC, and the
\* sessions that use a MAC of a portal with a cap above 0, whichever portal
\* was asked for, are never more than that cap.
SessionsUsing(m) ==
  {e \in Portals \X (1..NumReq) :
     e[2] <= Len(occupied[e[1]]) /\ occupied[e[1]][e[2]].mac = m}
C30_FallbackAdmittedPerPortal ==
  /\ \A p \in Portals : \A k \in 1..Len(occupied[p]) :
       PortalOf(occupied[p][k].mac) = p
  /\ \A m \in AllMacs :
       portalCfg[PortalOf(m)].cap > 0
       => Cardinality(SessionsUsing(m)) <= portalCfg[PortalOf(m)].cap

\* C31: a relay that streams with a MAC of a fallback portal and reads the
\* end of its child's output after an exit with a non-zero status moves that
\* MAC behind the other MACs of the fallback portal; the MACs of the
\* requested portal stay as they are.
C31_FallbackRelayRotates ==
  [][\A r \in Reqs :
       LET rec == req[r]
           Y == PortalOf(rec.mac)
       IN /\ (/\ rec.pc = "read"
              /\ rec.child = "exit1"
              /\ Y # rec.portalId
              /\ req'[r].pc \in {"move_end", "with_exit"}
              /\ req'[r].cause # "exception")
             => /\ req'[r].pc = "move_end"
                /\ portalMacs' = moveMacDel(portalMacs, Y, rec.mac)
          /\ (/\ rec.pc = "move_end"
              /\ Y # rec.portalId
              /\ req'[r].pc # "move_end")
             => /\ portalMacs' = moveMacSet(portalMacs, Y, rec.mac, rec.x)
                /\ portalMacs'[rec.portalId] = portalMacs[rec.portalId]]_vars

\* C32: every call other than the handshake is issued, for the MAC of its
\* iteration, after a handshake of that iteration that returned a token, and
\* with that token.
C32_TokenFromOwnHandshake ==
  calc.fn = "loop"
  => \A k \in 1..Len(calc.calls) :
       LET call == calc.calls[k]
       IN call.op # "getToken"
          => /\ call.token # None
             /\ \E j \in 1..(k - 1) :
                  /\ calc.calls[j].op = "getToken"
                  /\ calc.calls[j].mac = call.mac
                  /\ calc.calls[j].result = call.token

\* C33: once no editor save is applying its edits and no refresh is waiting
\* to run, a refresh that publishes the lineup or the EPG publishes channels
\* of the saved configuration only: none of a portal whose channel is
\* disabled.
SaveSettled(kind) ==
  /\ \A d \in Clients : client[d].pc # "edits"
  /\ \A t \in threads : Kind(t) # kind
C33_RefreshReflectsSave ==
  [][\A c \in Clients :
       /\ (/\ client[c].pc = "publish"
           /\ client[c].op = "refresh_lineup"
           /\ SaveSettled("lineup")
           /\ cached_lineup' # cached_lineup)
          => \A k \in 1..Len(cached_lineup') :
               enabledChannels[cached_lineup'[k].portal]
       /\ (/\ client[c].pc = "swap"
           /\ client[c].op = "refresh_xmltv"
           /\ SaveSettled("xmltv")
           /\ cached_xmltv' # cached_xmltv)
          => \A k \in 1..Len(cached_xmltv'[1].channels) :
               enabledChannels[cached_xmltv'[1].channels[k]]]_vars

\* C34: a refresh never loads the on-disk EPG document while it is written
\* in part only: what it loads is the last completely written document.
C34_NoPartialRead ==
  [][\A c \in Clients :
       (client[c].pc = "load" /\ client'[c].pc = "build")
       => cache_file # Unreadable]_vars

\* the integer value of a channel number
DigitOf(ch) == CASE ch = "0" -> 0 [] ch = "1" -> 1 [] OTHER -> 9
RECURSIVE IntOf(_)
IntOf(digits) ==
  IF digits = <<>> THEN 0
  ELSE 10 * IntOf(SubSeq(digits, 1, Len(digits) - 1))
       + DigitOf(digits[Len(digits)])
\* the channels of the entries of a playlist
ChannelsOf(entries) == [k \in 1..Len(entries) |-> entries[k].of]
\* C35: the entries of the generated playlist are in the order that a stable
\* sort by name (if enabled), then one by channel number (if enabled), then
\* one by genre (if enabled) gives to the channels in portal and
\* channel-list order; with no sort enabled they keep that order.
C35_PlaylistOrder ==
  (calc.fn = "generate_playlist" /\ calc.pc = "done")
  => LET s == calc.settings
         byName == IF s.sortName
                   THEN Sorted(calc.of, TextRanks(
                          [k \in 1..Len(calc.of) |-> calc.of[k].name]))
                   ELSE calc.of
         byNumber == IF s.useNumbers /\ s.sortNumber
                     THEN Sorted(byName,
                            [k \in 1..Len(byName) |->
                               IntOf(byName[k].number)])
                     ELSE byName
         byGenre == IF s.useGenres /\ s.sortGenre
                    THEN Sorted(byNumber, TextRanks(
                           [k \in 1..Len(byNumber) |-> byNumber[k].genre]))
                    ELSE byNumber
     IN ChannelsOf(calc.channels) = byGenre

\* C36: a lineup request regenerates the lineup exactly when the cached
\* lineup is empty, a refresh request always does; and in every state the
\* cached lineup is in ascending order of the integer value of the channel
\* numbers.
C36_LineupWhenEmptyAndSorted ==
  /\ [](\A i, j \in 1..Len(cached_lineup) :
          i < j => Rank(cached_lineup[i].number)
                     <= Rank(cached_lineup[j].number))
  /\ [][\A c \in Clients :
          (client[c].pc = "idle" /\ client'[c].pc # "idle"
             /\ client'[c].op \in {"lineup", "refresh_lineup"})
          => (client'[c].pc = "build"
                <=> (cached_lineup = <<>>
                       \/ client'[c].op = "refresh_lineup"))]_vars
C36_Witness ==
  /\ Len(cached_lineup) = 2
  /\ cached_lineup[1].portal = "Y"
  /\ \E c \in Clients :
       client[c].op = "lineup" /\ client[c].pc = "return" /\ ~client[c].called

\* the placeholder programmes that the refresh has made for a channel
PlaceholdersOf(ch) ==
  SelectSeq(calc.programmes,
            LAMBDA e : e.title = ch.name /\ e.channel = EpgIdOf(ch))
\* C37: when the refresh has gone through a fetched portal, every enabled
\* channel without fetched programme data has exactly one placeholder
\* programme, which stops 24 hours after its start and names the channel's
\* EPG id; a channel with fetched programme data has none.
C37_OnePlaceholder ==
  (calc.fn = "refresh_xmltv" /\ calc.pc = "done")
  => \A k \in 1..Len(calc.allChannels) :
       LET ch == calc.allChannels[k]
           mine == PlaceholdersOf(ch)
       IN IF ch.enabled
             /\ calc.epg[ch.id].list = <<>>
          THEN /\ Len(mine) = 1
               /\ Decode(mine[1].stop)
                    = Decode(mine[1].start) + 24 * 2
          ELSE mine = <<>>
C37_Witness ==
  /\ calc.fn = "refresh_xmltv"
  /\ calc.pc = "done"
  /\ \E i, j \in 1..Len(calc.allChannels) :
       /\ calc.allChannels[i].enabled
       /\ calc.epg[calc.allChannels[i].id] = [known |-> TRUE, list |-> <<>>]
       /\ Len(PlaceholdersOf(calc.allChannels[i])) = 1
       /\ calc.allChannels[j].enabled
       /\ \E e \in {calc.programmes[n] : n \in 1..Len(calc.programmes)} :
            e.channel = EpgIdOf(calc.allChannels[j]) /\ e.title = "show"

====
